---------------------------- MODULE Spec2Model ----------------------------
(***************************************************************************)
(* Model of linera-execution/src/policy.rs: the ResourceControlPolicy      *)
(* record, its constructors and its pricing functions.                     *)
(*                                                                         *)
(* Amount wraps a u128 and counts are u64 in the program.  The model keeps *)
(* both as fixed-width unsigned integers, AmountBits and CountBits wide,   *)
(* with AmountBits > CountBits as in the program (128 > 64), so that every *)
(* overflow and saturation boundary of the code exists in the model.       *)
(***************************************************************************)
EXTENDS Integers, Sequences, FiniteSets

VARIABLES policy, call, result

vars == <<policy, call, result>>

(***************************************************************************)
(* Widths of the two integer types.                                        *)
(***************************************************************************)
AmountBits == 4

CountBits == 2

MaxAmount == 2^AmountBits - 1

MaxU64 == 2^CountBits - 1

Amounts == 0..MaxAmount

Counts == 0..MaxU64

Min(a, b) == IF a <= b THEN a ELSE b

(***************************************************************************)
(* Results.  Ok(v) is Result::Ok(v); Err(e) is Result::Err(e).             *)
(***************************************************************************)
Ok(v) == [ok |-> TRUE, val |-> v]

Err(e) == [ok |-> FALSE, err |-> e]

(***************************************************************************)
(* linera_base::data_types::Amount and ArithmeticError.                    *)
(***************************************************************************)
ArithmeticError_Overflow == "Overflow"

Amount_default == 0

\* Amount::try_mul(self, other: u128): checked multiplication.
try_mul(a, n) ==
    IF a * n > MaxAmount THEN Err(ArithmeticError_Overflow) ELSE Ok(a * n)

\* Amount::try_add(self, other: Amount): checked addition.
try_add(a, b) ==
    IF a + b > MaxAmount THEN Err(ArithmeticError_Overflow) ELSE Ok(a + b)

\* Amount::saturating_div(self, other: Amount) -> u128: the quotient, and the
\* maximum of the type when the divisor is zero.
saturating_div(a, b) == IF b = 0 THEN MaxAmount ELSE a \div b

\* 10^e atto, saturated at the width of the model's Amount.
RECURSIVE Pow10Sat(_)
Pow10Sat(e) == IF e = 0 THEN 1 ELSE Min(10 * Pow10Sat(e - 1), MaxAmount)

\* Amount::from_atto(10^e).
from_atto_pow10(e) == Pow10Sat(e)

\* Amount::from_milli(m): m * 10^15 atto.
from_milli(m) == Min(m * Pow10Sat(15), MaxAmount)

(***************************************************************************)
(* PricingError: the single variant wraps an ArithmeticError (#[from]).    *)
(***************************************************************************)
PricingError(e) == [variant |-> "ArithmeticError", source |-> e]

\* The `?` operator on a Result<Amount, ArithmeticError> inside a function
\* returning Result<Amount, PricingError>.
Try(r) == IF r.ok THEN r ELSE Err(PricingError(r.err))

(***************************************************************************)
(* ResourceControlPolicy.                                                  *)
(***************************************************************************)
PriceFields ==
    {"block", "fuel_unit", "read_operation", "byte_read", "byte_written",
     "byte_stored", "operation", "operation_byte", "message", "message_byte"}

LimitFields ==
    {"maximum_bytes_read_per_block", "maximum_bytes_written_per_block"}

ResourceControlPolicy ==
    [block : Amounts, fuel_unit : Amounts, read_operation : Amounts,
     byte_read : Amounts, byte_written : Amounts, byte_stored : Amounts,
     operation : Amounts, operation_byte : Amounts, message : Amounts,
     message_byte : Amounts,
     maximum_bytes_read_per_block : Counts,
     maximum_bytes_written_per_block : Counts]

\* Default with the per-byte operation price left at the maximum Amount.
DefaultNonZeroByte ==
    [block |-> Amount_default,
     fuel_unit |-> Amount_default,
     read_operation |-> Amount_default,
     byte_read |-> Amount_default,
     byte_written |-> Amount_default,
     byte_stored |-> Amount_default,
     operation |-> Amount_default,
     operation_byte |-> MaxAmount,
     message |-> Amount_default,
     message_byte |-> Amount_default,
     maximum_bytes_read_per_block |-> MaxU64,
     maximum_bytes_written_per_block |-> MaxU64]

Default ==
    [block |-> Amount_default,
     fuel_unit |-> Amount_default,
     read_operation |-> Amount_default,
     byte_read |-> Amount_default,
     byte_written |-> Amount_default,
     byte_stored |-> Amount_default,
     operation |-> Amount_default,
     operation_byte |-> Amount_default,
     message |-> Amount_default,
     message_byte |-> Amount_default,
     maximum_bytes_read_per_block |-> MaxU64,
     maximum_bytes_written_per_block |-> MaxU64]

only_fuel == [Default EXCEPT !.fuel_unit = from_atto_pow10(12)]

fuel_and_block ==
    [Default EXCEPT !.block = from_milli(1),
                    !.fuel_unit = from_atto_pow10(12)]

all_categories ==
    [Default EXCEPT !.block = from_milli(1),
                    !.fuel_unit = from_atto_pow10(9),
                    !.byte_read = from_atto_pow10(2),
                    !.byte_written = from_atto_pow10(3),
                    !.operation = from_atto_pow10(1),
                    !.operation_byte = from_atto_pow10(0),
                    !.message = from_atto_pow10(1),
                    !.message_byte = from_atto_pow10(0)]

(***************************************************************************)
(* Operation and Message: a system variant, and a user variant carrying a  *)
(* byte payload of which only the length is read.                          *)
(***************************************************************************)
Bytes(n) == [i \in 1..n |-> 0]

System == [variant |-> "System"]

User(bytes) == [variant |-> "User", bytes |-> bytes]

Operations == {System} \cup {User(Bytes(n)) : n \in Counts}

Messages == {System} \cup {User(Bytes(n)) : n \in Counts}

(***************************************************************************)
(* The pricing functions.                                                  *)
(***************************************************************************)
block_price(self) == self.block

\* operation_price with the base price added by a wrapping addition.
operation_price_WrappingAdd(self, operation) ==
    IF operation.variant = "System"
    THEN Ok(self.operation)
    ELSE LET size == Len(operation.bytes)
             product == Try(try_mul(self.operation_byte, size))
         IN  IF ~product.ok THEN product
             ELSE Ok((product.val + self.operation) % (MaxAmount + 1))

operation_price(self, operation) ==
    IF operation.variant = "System"
    THEN Ok(self.operation)
    ELSE LET size == Len(operation.bytes)
             product == Try(try_mul(self.operation_byte, size))
         IN  IF ~product.ok THEN product
             ELSE Try(try_add(product.val, self.operation))

\* message_price charging the system variant for one byte of payload.
message_price_SystemByte(self, message) ==
    LET size == IF message.variant = "System" THEN 1 ELSE Len(message.bytes)
        product == Try(try_mul(self.message_byte, size))
    IN  IF ~product.ok THEN product
        ELSE Try(try_add(product.val, self.message))

message_price(self, message) ==
    IF message.variant = "System"
    THEN Ok(self.message)
    ELSE LET size == Len(message.bytes)
             product == Try(try_mul(self.message_byte, size))
         IN  IF ~product.ok THEN product
             ELSE Try(try_add(product.val, self.message))

storage_num_reads_price(self, count) == Try(try_mul(self.read_operation, count))

\* storage_bytes_read_price refusing a count above the per-block limit.
storage_bytes_read_price_Capped(self, count) ==
    IF count > self.maximum_bytes_read_per_block
    THEN Err(PricingError(ArithmeticError_Overflow))
    ELSE Try(try_mul(self.byte_read, count))

storage_bytes_read_price(self, count) == Try(try_mul(self.byte_read, count))

storage_bytes_written_price(self, count) ==
    Try(try_mul(self.byte_written, count))

\* storage_bytes_stored_price reading the byte_written price.
storage_bytes_stored_price_WrongField(self, count) ==
    Try(try_mul(self.byte_written, count))

storage_bytes_stored_price(self, count) ==
    Try(try_mul(self.byte_stored, count))

\* fuel_price with a wrapping multiplication.
fuel_price_Wrapping(self, fuel) ==
    Ok((self.fuel_unit * fuel) % (MaxAmount + 1))

fuel_price(self, fuel) == Try(try_mul(self.fuel_unit, fuel))

\* remaining_fuel answering 0 for a zero fuel price.
remaining_fuel_ZeroOnZero(self, balance) ==
    IF self.fuel_unit = 0 THEN 0
    ELSE Min(balance \div self.fuel_unit, MaxU64)

\* remaining_fuel with a truncating cast (`as u64`) of the quotient.
remaining_fuel_Truncating(self, balance) ==
    saturating_div(balance, self.fuel_unit) % (MaxU64 + 1)

\* remaining_fuel rounding the quotient up.
remaining_fuel_RoundUp(self, balance) ==
    IF self.fuel_unit = 0 THEN MaxU64
    ELSE Min((balance + self.fuel_unit - 1) \div self.fuel_unit, MaxU64)

\* u64::try_from(balance.saturating_div(self.fuel_unit)).unwrap_or(u64::MAX)
remaining_fuel(self, balance) ==
    LET quotient == saturating_div(balance, self.fuel_unit)
    IN  IF quotient <= MaxU64 THEN quotient ELSE MaxU64

(***************************************************************************)
(* The policies the calls are made on: the four constructors; the default  *)
(* and all_categories policies with a pair of price fields, or one price   *)
(* field, replaced by any Amounts; and, of those, the policies that price  *)
(* bytes read or written with the two limits replaced as well (all fields  *)
(* are public, and the record is deserializable from any field values).    *)
(***************************************************************************)
FieldPairs ==
    {<<"operation_byte", "operation">>, <<"message_byte", "message">>}

SingleFields ==
    {"block", "fuel_unit", "read_operation", "byte_read", "byte_written",
     "byte_stored"}

LimitedFields == {"byte_read", "byte_written"}

LimitValues == {0, MaxU64}

Bases == {Default, all_categories}

Priced(base) ==
    UNION {{[base EXCEPT ![p[1]] = v, ![p[2]] = w] :
                v \in Amounts, w \in Amounts} : p \in FieldPairs}
    \cup
    UNION {{[base EXCEPT ![f] = v] : v \in Amounts} : f \in SingleFields}

Limited(base) ==
    UNION {{[base EXCEPT ![f] = v,
                         !.maximum_bytes_read_per_block = r,
                         !.maximum_bytes_written_per_block = w] :
                v \in Amounts, r \in LimitValues, w \in LimitValues} :
           f \in LimitedFields}

Policies ==
    {Default, only_fuel, fuel_and_block, all_categories}
    \cup UNION {Priced(base) : base \in Bases}
    \cup UNION {Limited(base) : base \in Bases}

(***************************************************************************)
(* The state machine: a policy is constructed, then the executor calls the *)
(* pricing functions on it in any order.  call records the last call and   *)
(* result what it returned.                                                *)
(***************************************************************************)
NoCall == [fn |-> "none"]

Init ==
    /\ policy \in Policies
    /\ call = NoCall
    /\ result = NoCall

CallBlockPrice ==
    /\ call' = [fn |-> "block_price"]
    /\ result' = block_price(policy)
    /\ UNCHANGED policy

CallOperationPrice ==
    \E operation \in Operations :
        /\ call' = [fn |-> "operation_price", arg |-> operation]
        /\ result' = operation_price(policy, operation)
        /\ UNCHANGED policy

CallMessagePrice ==
    \E message \in Messages :
        /\ call' = [fn |-> "message_price", arg |-> message]
        /\ result' = message_price(policy, message)
        /\ UNCHANGED policy

CallStorageNumReadsPrice ==
    \E count \in Counts :
        /\ call' = [fn |-> "storage_num_reads_price", arg |-> count]
        /\ result' = storage_num_reads_price(policy, count)
        /\ UNCHANGED policy

CallStorageBytesReadPrice ==
    \E count \in Counts :
        /\ call' = [fn |-> "storage_bytes_read_price", arg |-> count]
        /\ result' = storage_bytes_read_price(policy, count)
        /\ UNCHANGED policy

CallStorageBytesWrittenPrice ==
    \E count \in Counts :
        /\ call' = [fn |-> "storage_bytes_written_price", arg |-> count]
        /\ result' = storage_bytes_written_price(policy, count)
        /\ UNCHANGED policy

CallStorageBytesStoredPrice ==
    \E count \in Counts :
        /\ call' = [fn |-> "storage_bytes_stored_price", arg |-> count]
        /\ result' = storage_bytes_stored_price(policy, count)
        /\ UNCHANGED policy

CallFuelPrice ==
    \E fuel \in Counts :
        /\ call' = [fn |-> "fuel_price", arg |-> fuel]
        /\ result' = fuel_price(policy, fuel)
        /\ UNCHANGED policy

CallRemainingFuel ==
    \E balance \in Amounts :
        /\ call' = [fn |-> "remaining_fuel", arg |-> balance]
        /\ result' = remaining_fuel(policy, balance)
        /\ UNCHANGED policy

Next ==
    \/ CallBlockPrice
    \/ CallOperationPrice
    \/ CallMessagePrice
    \/ CallStorageNumReadsPrice
    \/ CallStorageBytesReadPrice
    \/ CallStorageBytesWrittenPrice
    \/ CallStorageBytesStoredPrice
    \/ CallFuelPrice
    \/ CallRemainingFuel

Spec == Init /\ [][Next]_vars

TypeOK ==
    /\ policy \in ResourceControlPolicy
    /\ call.fn \in {"none", "block_price", "operation_price", "message_price",
                    "storage_num_reads_price", "storage_bytes_read_price",
                    "storage_bytes_written_price",
                    "storage_bytes_stored_price", "fuel_price",
                    "remaining_fuel"}

(***************************************************************************)
(* Helpers of the properties below.                                        *)
(***************************************************************************)
LinearFns ==
    {"storage_num_reads_price", "storage_bytes_read_price",
     "storage_bytes_written_price", "storage_bytes_stored_price",
     "fuel_price"}

PayloadFns == {"operation_price", "message_price"}

\* The unit price a linear pricing function is documented to charge.
UnitPrice(self, fn) ==
    CASE fn = "storage_num_reads_price" -> self.read_operation
      [] fn = "storage_bytes_read_price" -> self.byte_read
      [] fn = "storage_bytes_written_price" -> self.byte_written
      [] fn = "storage_bytes_stored_price" -> self.byte_stored
      [] fn = "fuel_price" -> self.fuel_unit

\* The linear pricing function named fn, applied to count.
ApplyLinear(self, fn, count) ==
    CASE fn = "storage_num_reads_price" -> storage_num_reads_price(self, count)
      [] fn = "storage_bytes_read_price" -> storage_bytes_read_price(self, count)
      [] fn = "storage_bytes_written_price" ->
            storage_bytes_written_price(self, count)
      [] fn = "storage_bytes_stored_price" ->
            storage_bytes_stored_price(self, count)
      [] fn = "fuel_price" -> fuel_price(self, count)

OverflowError == [ok |-> FALSE,
                  err |-> [variant |-> "ArithmeticError", source |-> "Overflow"]]

IsUserCall == call.fn \in PayloadFns /\ call.arg.variant = "User"

IsSystemCall == call.fn \in PayloadFns /\ call.arg.variant = "System"

PerByte == IF call.fn = "operation_price" THEN policy.operation_byte
           ELSE policy.message_byte

Flat == IF call.fn = "operation_price" THEN policy.operation
        ELSE policy.message

(***************************************************************************)
(* C1: operation_price (message_price) of a user operation (message) with  *)
(* a payload of n bytes returns exactly operation_byte * n + operation     *)
(* (message_byte * n + message) when the product and the sum fit in an     *)
(* Amount, and the overflow error when either exceeds the maximum Amount;  *)
(* never a wrapped or truncated value.                                     *)
(***************************************************************************)
C1_UserPriceChecked ==
    IsUserCall =>
        LET n == Len(call.arg.bytes)
            product == PerByte * n
            sum == product + Flat
        IN  IF product <= MaxAmount /\ sum <= MaxAmount
            THEN result = [ok |-> TRUE, val |-> sum]
            ELSE result = OverflowError

\* A user operation whose byte term fits and whose sum with the base price
\* does not: the call has reported overflow.
C1_Witness ==
    /\ call.fn = "operation_price"
    /\ call.arg.variant = "User"
    /\ Len(call.arg.bytes) >= 2
    /\ policy.operation_byte * Len(call.arg.bytes) <= MaxAmount
    /\ policy.operation_byte * Len(call.arg.bytes) + policy.operation
           = MaxAmount + 1
    /\ result = OverflowError

(***************************************************************************)
(* C2: each of storage_num_reads_price, storage_bytes_read_price,          *)
(* storage_bytes_written_price, storage_bytes_stored_price and fuel_price  *)
(* returns the overflow error if and only if unit price * count exceeds    *)
(* the maximum Amount, and otherwise returns exactly unit price * count; a *)
(* product equal to the maximum succeeds, one above it fails.              *)
(***************************************************************************)
C2_LinearPriceExactOrOverflow ==
    call.fn \in LinearFns =>
        LET product == UnitPrice(policy, call.fn) * call.arg
        IN  /\ (result = OverflowError) <=> (product > MaxAmount)
            /\ product <= MaxAmount => result = [ok |-> TRUE, val |-> product]

\* A count of at least 2 whose product with the price of a stored byte is
\* exactly the maximum Amount: the call has succeeded with that maximum.
C2_Witness ==
    /\ call.fn = "storage_bytes_stored_price"
    /\ call.arg >= 2
    /\ policy.byte_stored * call.arg = MaxAmount
    /\ policy.byte_written # policy.byte_stored
    /\ result = [ok |-> TRUE, val |-> MaxAmount]

(***************************************************************************)
(* C3: with fuel_unit = 0, remaining_fuel returns the maximum 64-bit count *)
(* for every balance, balance 0 included.                                  *)
(***************************************************************************)
C3_ZeroFuelUnitUnlimited ==
    (call.fn = "remaining_fuel" /\ policy.fuel_unit = 0) => result = MaxU64

\* remaining_fuel(0) has been called on a policy whose fuel is free.
C3_Witness ==
    /\ call.fn = "remaining_fuel"
    /\ policy.fuel_unit = 0
    /\ call.arg = 0
    /\ result = MaxU64

(***************************************************************************)
(* C4: with fuel_unit > 0, remaining_fuel(b) is min(floor(b / fuel_unit),  *)
(* maximum 64-bit count): the exact quotient when it fits in 64 bits, the  *)
(* 64-bit maximum when it does not.                                        *)
(***************************************************************************)
C4_RemainingFuelSaturatingQuotient ==
    (call.fn = "remaining_fuel" /\ policy.fuel_unit > 0) =>
        LET quotient == call.arg \div policy.fuel_unit
        IN  /\ result <= MaxU64
            /\ quotient <= MaxU64 => result = quotient
            /\ quotient > MaxU64 => result = MaxU64

\* A balance whose quotient by the fuel price is above the 64-bit maximum
\* and is not congruent to it modulo 2^64: the call has saturated.
C4_Witness ==
    /\ call.fn = "remaining_fuel"
    /\ policy.fuel_unit > 0
    /\ call.arg \div policy.fuel_unit > MaxU64
    /\ (call.arg \div policy.fuel_unit) % (MaxU64 + 1) # MaxU64
    /\ result = MaxU64

(***************************************************************************)
(* C5: operation_price of a system operation returns exactly operation and *)
(* message_price of a system message exactly message; never an error,      *)
(* whatever the other fields are (the maximum Amount included).            *)
(***************************************************************************)
C5_SystemPriceIsFlat ==
    IsSystemCall => result = [ok |-> TRUE, val |-> Flat]

\* A system message priced under a policy whose message and message_byte
\* prices are both the maximum Amount.
C5_Witness ==
    /\ call.fn = "message_price"
    /\ call.arg.variant = "System"
    /\ policy.message_byte = MaxAmount
    /\ policy.message = MaxAmount
    /\ result = [ok |-> TRUE, val |-> MaxAmount]

(***************************************************************************)
(* C6: in the policy built by all_categories every one of the ten price    *)
(* fields is strictly greater than zero, so every pricing function called  *)
(* with a count or payload length of at least 1 returns a non-zero Amount. *)
(***************************************************************************)
C6_AllCategoriesNonZero ==
    policy = all_categories =>
        /\ \A f \in PriceFields : policy[f] > 0
        /\ (call.fn \in LinearFns /\ call.arg >= 1) =>
               (result.ok /\ result.val > 0)
        /\ (IsUserCall /\ Len(call.arg.bytes) >= 1) =>
               (result.ok /\ result.val > 0)

(***************************************************************************)
(* C7: summing per-item costs is exact: when a linear pricing function     *)
(* succeeds on a count, it succeeds on both parts of every split of that   *)
(* count in two, and the checked sum of the two prices is the price of the *)
(* whole.                                                                  *)
(***************************************************************************)
C7_LinearPriceAdditive ==
    (call.fn \in LinearFns /\ result.ok) =>
        \A a \in Counts, b \in Counts :
            a + b = call.arg =>
                LET fa == ApplyLinear(policy, call.fn, a)
                    fb == ApplyLinear(policy, call.fn, b)
                IN  /\ fa.ok
                    /\ fb.ok
                    /\ fa.val + fb.val <= MaxAmount
                    /\ fa.val + fb.val = result.val

\* fuel_price has succeeded on a count of at least 3, which splits in two in
\* more than one way, at a fuel price of at least 2.
C7_Witness ==
    /\ call.fn = "fuel_price"
    /\ call.arg >= 3
    /\ policy.fuel_unit >= 2
    /\ result.ok
    /\ result.val = policy.fuel_unit * call.arg

(***************************************************************************)
(* C8: the default policy has all ten prices at zero and both limits at    *)
(* the maximum 64-bit value; under it block_price and every pricing        *)
(* function succeed and return the zero Amount for every input.            *)
(***************************************************************************)
C8_DefaultIsFree ==
    policy = Default =>
        /\ \A f \in PriceFields : policy[f] = 0
        /\ \A f \in LimitFields : policy[f] = MaxU64
        /\ call.fn = "block_price" => result = 0
        /\ call.fn \in LinearFns \cup PayloadFns =>
               result = [ok |-> TRUE, val |-> 0]

\* A user operation with the longest payload priced under the default
\* policy.
C8_Witness ==
    /\ policy = Default
    /\ call.fn = "operation_price"
    /\ call.arg.variant = "User"
    /\ Len(call.arg.bytes) = MaxU64
    /\ result = [ok |-> TRUE, val |-> 0]

(***************************************************************************)
(* C9: the per-block limits are never enforced by the pricing functions:   *)
(* storage_bytes_read_price and storage_bytes_written_price return what    *)
(* they return under any policy that differs only in the two limits, also  *)
(* for a count above the limit, and overflow is the only error of any      *)
(* call.                                                                   *)
(***************************************************************************)
C9_LimitsNotEnforced ==
    /\ call.fn \in {"storage_bytes_read_price", "storage_bytes_written_price"}
           => \A r \in Counts, w \in Counts :
                  result = ApplyLinear(
                      [policy EXCEPT !.maximum_bytes_read_per_block = r,
                                     !.maximum_bytes_written_per_block = w],
                      call.fn, call.arg)
    /\ (call.fn \in LinearFns \cup PayloadFns /\ ~result.ok)
           => result = OverflowError
    /\ (call.fn \in LinearFns \cup PayloadFns /\ ~result.ok)
           => \/ call.fn \in LinearFns
                 /\ UnitPrice(policy, call.fn) * call.arg > MaxAmount
              \/ IsUserCall
                 /\ PerByte * Len(call.arg.bytes) + Flat > MaxAmount

\* Bytes read above the per-block limit have been priced, at a non-zero
\* price.
C9_Witness ==
    /\ call.fn = "storage_bytes_read_price"
    /\ call.arg > policy.maximum_bytes_read_per_block
    /\ policy.byte_read > 0
    /\ result = [ok |-> TRUE, val |-> policy.byte_read * call.arg]

(***************************************************************************)
(* C10: the fuel remaining_fuel reports is affordable: fuel_price of it    *)
(* succeeds and is at most the balance; and with fuel_unit > 0 and a       *)
(* result below the 64-bit maximum, one more unit is not affordable.       *)
(***************************************************************************)
C10_RemainingFuelAffordable ==
    call.fn = "remaining_fuel" =>
        LET price == fuel_price(policy, result)
        IN  /\ price.ok
            /\ price.val <= call.arg
            /\ (policy.fuel_unit > 0 /\ result < MaxU64) =>
                   LET more == fuel_price(policy, result + 1)
                   IN  ~more.ok \/ more.val > call.arg

\* A balance that is not a multiple of the fuel price and buys at least one
\* unit, but fewer than the 64-bit maximum.
C10_Witness ==
    /\ call.fn = "remaining_fuel"
    /\ policy.fuel_unit > 1
    /\ call.arg % policy.fuel_unit # 0
    /\ result >= 1
    /\ result < MaxU64

=============================================================================
